---- MODULE Spec2Model ----
(***************************************************************************)
(* Model of the gioui-dialog dialogs: the base (confirmation) dialog, the  *)
(* text-input dialog, the single-select dialog and the multi-select        *)
(* dialog.  Each dialog owns one window and runs the event loop of its     *)
(* Show method until that loop ends.  One behaviour of the model is one     *)
(* call Prompt*(opts): construction (Init), then one action per event      *)
(* returned by w.Event().                                                  *)
(*                                                                         *)
(* Strings are TLA+ strings, Go slices are sequences (a nil slice is <<>>),*)
(* Go indices are kept 0-based (selectedIndex = -1 means no selection), so *)
(* Choices[i] of the source is Choices[i + 1] here.                        *)
(***************************************************************************)
EXTENDS Integers, Sequences, FiniteSets, TLC

VARIABLES
    kind,          \* which dialog type this call constructs and shows
    d,             \* the dialog struct (fields depend on kind)
    w,             \* the dialog's window: close requests, destruction
    e,             \* the event most recently returned by w.Event()
    pc,            \* "running" while Show is in its loop, "sleeping" while
                   \* it is in the time.Sleep of the base dialog's
                   \* applyWindowOptions, "returned" after Show
    once,          \* the sync.OnceFunc applyWindowOptions of the base
                   \* dialog's Show: "armed" until its first call, "done"
                   \* after it; "none" in the Show methods that have none
    ret,           \* the triple returned by Show (meaningful when returned)
    closes,        \* Perform(ActionClose) calls made while handling e
    validateCalls, \* arguments Validate was called with while handling e
    cancelSeen,    \* history: some Cancel action has been handled
    lastClick,     \* history: index of the most recent choice click, or -1
    clickAtOK,     \* history: lastClick as of the latest action, see below
    lastAction,    \* history: the latest OK or Cancel action that had an
                   \* effect, with the value and canceled flag it wrote
    calls,         \* two Prompt* calls running on two goroutines and the
                   \* heap their dialogs and windows are in, or NoCalls
                   \* when one call is looked at on its own
    frameOps,      \* what handling e recorded in gtx.Ops (layout passes)
                   \* and handed to the window (e.Frame calls)
    centerer,      \* the goroutine the sized input dialog's Show starts to
                   \* centre the window: "none" when Show starts none
    demo           \* the demo application around the dialogs: its event
                   \* loop, its resultText and the goroutines it starts,
                   \* or NoDemo when a dialog is looked at on its own

vars == <<kind, d, w, e, pc, once, ret, closes, validateCalls, cancelSeen, lastClick,
          clickAtOK, lastAction, calls, frameOps, centerer, demo>>

-----------------------------------------------------------------------------
(* Bounds of the model *)

MaxChoices == 2

(* Values a choice or a default selection can take ("Z" is in no choice   *)
(* list), texts the input dialog's editor can hold, and texts the select   *)
(* dialogs' custom editor can hold ("A" can coincide with a choice).       *)
Values == {"A", "B"}
DefaultValues == {"A", "Z"}
Texts == {"", "A", "Z"}
CustomTexts == {"", "A"}
Errs == {"nil", "ErrWindow"}
Kinds == {"base", "input", "single", "multi"}

SeqsUpTo(S, n) == UNION {[1..k -> S] : k \in 0..n}
ChoiceLists == SeqsUpTo(Values, MaxChoices)
DefaultLists == {<<>>, <<"A">>, <<"Z">>, <<"Z", "B">>}

(* A validator is nil or a pure predicate, given by the texts it accepts. *)
Validators == {[isNil |-> TRUE, accepts |-> {}]}
                 \cup {[isNil |-> FALSE, accepts |-> A] : A \in SUBSET Texts}

Range(s) == {s[i] : i \in 1..Len(s)}
Max(S) == CHOOSE x \in S : \A y \in S : y <= x

NoEdit == "<no edit>"
NoEvent == [type |-> "None", cancelClicked |-> FALSE, okClicked |-> FALSE,
            name |-> "", state |-> "", Err |-> "nil"]

Event(type) == [NoEvent EXCEPT !.type = type]
FrameEvent(cancelClicked, okClicked) ==
    [NoEvent EXCEPT !.type = "Frame", !.cancelClicked = cancelClicked,
                    !.okClicked = okClicked]
KeyEvent(name, state) == [NoEvent EXCEPT !.type = "Key", !.name = name, !.state = state]
DestroyEvent(err) == [NoEvent EXCEPT !.type = "Destroy", !.Err = err]

KeyNames == {"Escape", "Return"}
KeyStates == {"Press", "Release"}

-----------------------------------------------------------------------------
(* The window.  Perform(ActionClose) only asks the window system to close  *)
(* the window; the DestroyEvent arrives later through w.Event().  Asking   *)
(* again changes nothing in the window.                                    *)

NewWindow == [closeRequested |-> FALSE, destroyed |-> FALSE]
(* mutant: the close request is lost *)
Perform_ActionClose_lost(win) == win

Perform_ActionClose(win) == [win EXCEPT !.closeRequested = TRUE]

(* Perform(ActionCenter) moves the window: neither a close request nor   *)
(* the destruction of the window depends on it.                          *)
Perform_ActionCenter(win) == win
Count(b) == IF b THEN 1 ELSE 0

-----------------------------------------------------------------------------
(* Base dialog *)

NewBaseDialog == [confirmed |-> FALSE, canceled |-> FALSE, done |-> FALSE]

(* mutant: OK that forgets to clear canceled *)
BaseDialog_handleOK_keepsCanceled(b) == [b EXCEPT !.confirmed = TRUE]

BaseDialog_handleOK(b) == [b EXCEPT !.confirmed = TRUE, !.canceled = FALSE]

BaseDialog_handleCancel(b) == [b EXCEPT !.confirmed = FALSE, !.canceled = TRUE]

-----------------------------------------------------------------------------
(* Input dialog *)

(* mutant: the editor is not filled with the default text *)
NewInputDialog_emptyField(defaultText, validate) ==
    [DefaultText |-> defaultText, Validate |-> validate,
     result |-> "", canceled |-> FALSE,
     textInput |-> "", done |-> FALSE]

NewInputDialog(defaultText, validate) ==
    [DefaultText |-> defaultText, Validate |-> validate,
     result |-> "", canceled |-> FALSE,
     textInput |-> defaultText, done |-> FALSE]

(* Validate(text) returns a non-nil error *)
Rejects(validate, text) == ~validate.isNil /\ text \notin validate.accepts

(* mutant: a rejected OK resets the outcome *)
inputDialog_handleOK_rejectClears(dd) ==
    IF Rejects(dd.Validate, dd.textInput)
    THEN [dd EXCEPT !.result = "", !.canceled = FALSE]
    ELSE [dd EXCEPT !.result = dd.textInput, !.canceled = FALSE]

(* mutant: OK that takes the default text instead of the field text *)
inputDialog_handleOK_defaultText(dd) ==
    IF Rejects(dd.Validate, dd.textInput)
    THEN dd
    ELSE [dd EXCEPT !.result = dd.DefaultText, !.canceled = FALSE]

inputDialog_handleOK(dd) ==
    LET text == dd.textInput IN
    IF Rejects(dd.Validate, text)
    THEN dd
    ELSE [dd EXCEPT !.result = text, !.canceled = FALSE]

(* the arguments of the Validate calls made by one handleOK *)
inputDialog_validateCalls(dd) ==
    IF dd.Validate.isNil THEN <<>> ELSE <<dd.textInput>>

(* mutant: Cancel that keeps the result of an earlier OK *)
inputDialog_handleCancel_keepsResult(dd) == [dd EXCEPT !.canceled = TRUE]

inputDialog_handleCancel(dd) == [dd EXCEPT !.result = "", !.canceled = TRUE]

(* mutant: the result follows the field as it is edited *)
inputDialog_layout_liveResult(dd, edit) ==
    IF edit = NoEdit THEN dd ELSE [dd EXCEPT !.textInput = edit, !.result = edit]

(* layout: the editor applies the frame's text edit, if any *)
inputDialog_layout(dd, edit) ==
    IF edit = NoEdit THEN dd ELSE [dd EXCEPT !.textInput = edit]
-----------------------------------------------------------------------------
(* Single-select dialog *)

(* mutant: the index starts at 0 instead of -1 *)
RECURSIVE defaultIndex_fromZero(_, _, _)
defaultIndex_fromZero(choices, defaultSelection, from) ==
    IF from >= Len(choices) THEN 0
    ELSE IF choices[from + 1] = defaultSelection THEN from
    ELSE defaultIndex_fromZero(choices, defaultSelection, from + 1)

(* mutant: the last matching choice wins *)
defaultIndex_lastMatch(choices, defaultSelection, from) ==
    LET M == {i \in from..(Len(choices) - 1) : choices[i + 1] = defaultSelection}
    IN IF M = {} THEN -1 ELSE Max(M)

(* the loop "for i, choice := range choices": first i >= from whose     *)
(* choice equals the default, or the initial -1                          *)
RECURSIVE defaultIndex(_, _, _)
defaultIndex(choices, defaultSelection, from) ==
    IF from >= Len(choices) THEN -1
    ELSE IF choices[from + 1] = defaultSelection THEN from
    ELSE defaultIndex(choices, defaultSelection, from + 1)

NewSelectDialog(choices, defaultSelection, allowCustomEntry) ==
    [Choices |-> choices, DefaultSelection |-> defaultSelection,
     AllowCustomEntry |-> allowCustomEntry,
     selected |-> "", canceled |-> FALSE,
     selectedIndex |-> defaultIndex(choices, defaultSelection, 0),
     customInput |-> "", done |-> FALSE]

(* mutant: with nothing selected OK falls back to the default selection *)
selectDialog_handleOK_fallbackDefault(dd) ==
    IF dd.AllowCustomEntry /\ dd.customInput # ""
    THEN [dd EXCEPT !.selected = dd.customInput, !.canceled = FALSE, !.done = TRUE]
    ELSE IF dd.selectedIndex >= 0 /\ dd.selectedIndex < Len(dd.Choices)
    THEN [dd EXCEPT !.selected = dd.Choices[dd.selectedIndex + 1], !.canceled = FALSE]
    ELSE [dd EXCEPT !.selected = dd.DefaultSelection, !.canceled = FALSE]

(* mutant: OK that returns the default selection, not the clicked one *)
selectDialog_handleOK_default(dd) ==
    IF dd.AllowCustomEntry /\ dd.customInput # ""
    THEN [dd EXCEPT !.selected = dd.customInput, !.canceled = FALSE, !.done = TRUE]
    ELSE IF dd.DefaultSelection \in Range(dd.Choices)
    THEN [dd EXCEPT !.selected = dd.DefaultSelection, !.canceled = FALSE]
    ELSE [dd EXCEPT !.selected = "", !.canceled = FALSE]

selectDialog_handleOK(dd) ==
    IF dd.AllowCustomEntry /\ dd.customInput # ""
    THEN [dd EXCEPT !.selected = dd.customInput, !.canceled = FALSE, !.done = TRUE]
    ELSE IF dd.selectedIndex >= 0 /\ dd.selectedIndex < Len(dd.Choices)
    THEN [dd EXCEPT !.selected = dd.Choices[dd.selectedIndex + 1], !.canceled = FALSE]
    ELSE [dd EXCEPT !.selected = "", !.canceled = FALSE]

(* mutant: Cancel that keeps the selection of an earlier OK *)
selectDialog_handleCancel_keepsSelected(dd) == [dd EXCEPT !.canceled = TRUE]

selectDialog_handleCancel(dd) == [dd EXCEPT !.selected = "", !.canceled = TRUE]

(* mutant: a click on the active choice clears the selection *)
selectDialog_choiceItems_toggles(dd, clicks) ==
    IF clicks = {} THEN dd
    ELSE IF Max(clicks) = dd.selectedIndex THEN [dd EXCEPT !.selectedIndex = -1]
    ELSE [dd EXCEPT !.selectedIndex = Max(clicks)]

(* choiceItems runs the choice buttons in list order, each clicked one   *)
(* assigning its index: the highest clicked index is the one that stays  *)
selectDialog_choiceItems(dd, clicks) ==
    IF clicks = {} THEN dd ELSE [dd EXCEPT !.selectedIndex = Max(clicks)]

(* layout: the choice buttons, then the custom editor when it is shown *)
selectDialog_layout(dd, edit, clicks) ==
    LET d1 == selectDialog_choiceItems(dd, clicks) IN
    IF dd.AllowCustomEntry /\ edit # NoEdit
    THEN [d1 EXCEPT !.customInput = edit] ELSE d1

-----------------------------------------------------------------------------
(* Multi-select dialog *)

NewMultiSelectDialog(choices, defaultSelections, allowCustomEntry) ==
    [Choices |-> choices, DefaultSelections |-> defaultSelections,
     AllowCustomEntry |-> allowCustomEntry,
     selected |-> <<>>, canceled |-> FALSE,
     checkboxes |-> [i \in 1..Len(choices) |->
                       \E j \in 1..Len(defaultSelections) :
                           choices[i] = defaultSelections[j]],
     customInput |-> "", done |-> FALSE]

(* mutant: the checked choices collected back to front *)
RECURSIVE collectChecked_reversed(_, _)
collectChecked_reversed(dd, from) ==
    IF from > Len(dd.checkboxes) THEN <<>>
    ELSE collectChecked_reversed(dd, from + 1)
         \o (IF dd.checkboxes[from] THEN <<dd.Choices[from]>> ELSE <<>>)

(* the loop "for i, checkbox := range d.checkboxes" from index from on *)
RECURSIVE collectChecked(_, _)
collectChecked(dd, from) ==
    IF from > Len(dd.checkboxes) THEN <<>>
    ELSE (IF dd.checkboxes[from] THEN <<dd.Choices[from]>> ELSE <<>>)
         \o collectChecked(dd, from + 1)

(* mutant: an OK with nothing to return counts as a cancel *)
multiSelectDialog_handleOK_emptyCancels(dd) ==
    LET checked == collectChecked(dd, 1)
        selected == IF dd.AllowCustomEntry /\ dd.customInput # ""
                    THEN Append(checked, dd.customInput) ELSE checked
    IN [dd EXCEPT !.selected = selected, !.canceled = (selected = <<>>)]

multiSelectDialog_handleOK(dd) ==
    LET checked == collectChecked(dd, 1)
        selected == IF dd.AllowCustomEntry /\ dd.customInput # ""
                    THEN Append(checked, dd.customInput) ELSE checked
    IN [dd EXCEPT !.selected = selected, !.canceled = FALSE]

multiSelectDialog_handleCancel(dd) == [dd EXCEPT !.selected = <<>>, !.canceled = TRUE]

(* mutant: toggling a check box rewrites the result at once *)
multiSelectDialog_layout_liveSelected(dd, edit, clicks) ==
    LET boxes == [i \in 1..Len(dd.checkboxes) |->
                      IF (i - 1) \in clicks THEN ~dd.checkboxes[i]
                      ELSE dd.checkboxes[i]]
        d1 == [dd EXCEPT !.checkboxes = boxes]
        d2 == IF clicks = {} THEN d1
              ELSE [d1 EXCEPT !.selected = collectChecked(d1, 1)]
    IN IF dd.AllowCustomEntry /\ edit # NoEdit
       THEN [d2 EXCEPT !.customInput = edit] ELSE d2

(* layout: each check box whose click arrived in this frame flips *)
multiSelectDialog_layout(dd, edit, clicks) ==
    LET d1 == [dd EXCEPT !.checkboxes =
                  [i \in 1..Len(dd.checkboxes) |->
                      IF (i - 1) \in clicks THEN ~dd.checkboxes[i]
                      ELSE dd.checkboxes[i]]] IN
    IF dd.AllowCustomEntry /\ edit # NoEdit
    THEN [d1 EXCEPT !.customInput = edit] ELSE d1

-----------------------------------------------------------------------------
(* Dispatch on the dialog type: each Show has the same loop around its   *)
(* own handleCancel, handleOK and layout.                                 *)

handleOK(k, dd) ==
    CASE k = "base" -> BaseDialog_handleOK(dd)
      [] k = "input" -> inputDialog_handleOK(dd)
      [] k = "single" -> selectDialog_handleOK(dd)
      [] k = "multi" -> multiSelectDialog_handleOK(dd)

handleCancel(k, dd) ==
    CASE k = "base" -> BaseDialog_handleCancel(dd)
      [] k = "input" -> inputDialog_handleCancel(dd)
      [] k = "single" -> selectDialog_handleCancel(dd)
      [] k = "multi" -> multiSelectDialog_handleCancel(dd)

layout(k, dd, edit, clicks) ==
    CASE k = "base" -> dd
      [] k = "input" -> inputDialog_layout(dd, edit)
      [] k = "single" -> selectDialog_layout(dd, edit, clicks)
      [] k = "multi" -> multiSelectDialog_layout(dd, edit, clicks)

(* mutant: Show returns what the widgets hold, not the result field *)
Value_fromWidgets(k, dd) ==
    CASE k = "base" -> dd.confirmed
      [] k = "input" -> dd.textInput
      [] k = "single" -> IF dd.selectedIndex >= 0
                         THEN dd.Choices[dd.selectedIndex + 1] ELSE dd.selected
      [] k = "multi" -> dd.selected

(* the value Show returns next to canceled and err *)
Value(k, dd) ==
    CASE k = "base" -> dd.confirmed
      [] k = "input" -> dd.result
      [] k \in {"single", "multi"} -> dd.selected

Zero(k) ==
    CASE k = "base" -> FALSE
      [] k \in {"input", "single"} -> ""
      [] k = "multi" -> <<>>

(* Show of the select dialogs has no "Enter" branch in its key case *)
HandlesReturnKey(k) == k \in {"base", "input"}

(* what one frame can carry for a dialog of type k *)
FrameEdits(k, dd) ==
    CASE k = "base" -> {NoEdit}
      [] k = "input" -> Texts \cup {NoEdit}
      [] k \in {"single", "multi"} ->
           IF dd.AllowCustomEntry THEN CustomTexts \cup {NoEdit} ELSE {NoEdit}
FrameClicks(k, dd) ==
    IF k \in {"single", "multi"} THEN SUBSET (0..(Len(dd.Choices) - 1)) ELSE {{}}
-----------------------------------------------------------------------------
(* Prompt*: construct the dialog, then Show it *)

NewDialogs(k) ==
    CASE k = "base" -> {NewBaseDialog}
      [] k = "input" -> {NewInputDialog(t, v) : t \in Texts, v \in Validators}
      [] k = "single" -> {NewSelectDialog(c, s, a) :
                             c \in ChoiceLists, s \in DefaultValues, a \in BOOLEAN}
      [] k = "multi" -> {NewMultiSelectDialog(c, s, a) :
                             c \in ChoiceLists, s \in DefaultLists, a \in BOOLEAN}

InitDialog ==
    /\ kind \in Kinds
    /\ d \in NewDialogs(kind)
    /\ w = NewWindow
    /\ e = NoEvent
    /\ pc = "running"
    /\ once = IF kind = "base" THEN "armed" ELSE "none"
    /\ ret = [value |-> Zero(kind), canceled |-> FALSE, err |-> "nil"]
    /\ closes = 0
    /\ validateCalls = <<>>
    /\ cancelSeen = FALSE
    /\ lastClick = -1
    /\ clickAtOK = -1
    /\ lastAction = [act |-> "none", value |-> Zero(kind), canceled |-> FALSE]
    /\ frameOps = [ops |-> <<>>, frames |-> <<>>]

(* One Prompt* call: no other dialog is open *)
NoCalls == [heap |-> <<>>, frame |-> <<>>, last |-> 0]
NoDemo == [loop |-> "none"]
Init == InitDialog /\ calls = NoCalls /\ centerer = "none" /\ demo = NoDemo

(* All there is to one Prompt* call: the dialog struct, the window, the  *)
(* locals of Show and the history kept about the call.                    *)
Bundle ==
    [kind |-> kind, d |-> d, w |-> w, e |-> e, pc |-> pc, once |-> once,
     ret |-> ret,
     closes |-> closes, validateCalls |-> validateCalls, cancelSeen |-> cancelSeen,
     lastClick |-> lastClick, clickAtOK |-> clickAtOK, lastAction |-> lastAction,
     frameOps |-> frameOps]

(* the call is in b after the step *)
Becomes(b) ==
    /\ kind' = b.kind
    /\ d' = b.d
    /\ w' = b.w
    /\ e' = b.e
    /\ pc' = b.pc
    /\ once' = b.once
    /\ ret' = b.ret
    /\ closes' = b.closes
    /\ validateCalls' = b.validateCalls
    /\ cancelSeen' = b.cancelSeen
    /\ lastClick' = b.lastClick
    /\ clickAtOK' = b.clickAtOK
    /\ lastAction' = b.lastAction
    /\ frameOps' = b.frameOps

(* The end of one pass through "for !d.done { switch ... }" of a dialog  *)
(* of type k: the loop goes on and what Show returns stays r, or the     *)
(* loop ends and Show returns with a nil error.                           *)
LoopEnd(k, dd, r) ==
    IF dd.done
    THEN [pc |-> "returned",
          ret |-> [value |-> Value(k, dd), canceled |-> dd.canceled, err |-> "nil"]]
    ELSE [pc |-> "running", ret |-> r]

(* The check marks choiceItems draws in one pass: the buttons are run   *)
(* in list order, each one first takes its own click (d.selectedIndex = *)
(* i), then draws its mark when d.selectedIndex is its index just then: *)
(* a button before the clicked one still finds the former index.         *)
selectDialog_choiceMarks(dd, clicks) ==
    [i \in 1..Len(dd.Choices) |->
        LET sofar == {j \in clicks : j <= i - 1}
            index == IF sofar = {} THEN dd.selectedIndex ELSE Max(sofar)
        IN index = i - 1]

(* What the layout pass of a frame with this edit and these clicks draws *)
(* of the dialog dd: the text of the editor, the marks of the choice     *)
(* buttons or the check boxes, the custom entry field when it is shown   *)
(* (labels and buttons are the same in every frame).  The editors and    *)
(* the check boxes are drawn as their widget is after its own update.    *)
Drawn(k, dd, edit, clicks) ==
    LET d3 == layout(k, dd, edit, clicks) IN
    CASE k = "base" -> <<>>
      [] k = "input" -> <<d3.textInput>>
      [] k = "single" -> IF dd.AllowCustomEntry
                         THEN <<selectDialog_choiceMarks(dd, clicks), d3.customInput>>
                         ELSE <<selectDialog_choiceMarks(dd, clicks)>>
      [] k = "multi" -> IF dd.AllowCustomEntry
                        THEN <<d3.checkboxes, d3.customInput>>
                        ELSE <<d3.checkboxes>>

(* mutant: a canceled dialog is not drawn any more *)
FrameAnswer_skippedOnCancel(k, dd, edit, clicks) ==
    IF dd.canceled
    THEN [d |-> dd, ops |-> <<>>, frames |-> <<>>]
    ELSE LET d3 == layout(k, dd, edit, clicks)
             ops == Append(<<>>, Drawn(k, dd, edit, clicks))
         IN [d |-> d3, ops |-> ops, frames |-> <<ops>>]

(* The end of the FrameEvent case, "d.layout(gtx, th); e.Frame(gtx.Ops)",*)
(* for the dialog dd as the click checks left it.  gtx.Ops is the list   *)
(* ops that app.NewContext(&ops, e) emptied at the start of the case:    *)
(* the layout pass applies the frame's edit and clicks to the widgets    *)
(* and records what it draws in ops, e.Frame hands ops to the window.    *)
(* d is the dialog afterwards, ops the passes recorded, frames the       *)
(* lists handed to the window.                                           *)
FrameAnswer(k, dd, edit, clicks) ==
    LET d3 == layout(k, dd, edit, clicks)
        ops == Append(<<>>, Drawn(k, dd, edit, clicks))
    IN [d |-> d3, ops |-> ops, frames |-> <<ops>>]

(* an event of another case: no NewContext, no layout, no e.Frame *)
NoFrameAnswer == [ops |-> <<>>, frames |-> <<>>]

(* An OK action has no effect when the validator rejects the text. *)
Effective(k, dd) == ~(k = "input" /\ Rejects(dd.Validate, dd.textInput))

Written(act, k, dd) == [act |-> act, value |-> Value(k, dd), canceled |-> dd.canceled]

(* History of the actions handled by the call b: cancelRan and okRan     *)
(* tell which of handleCancel and handleOK this event ran (handleCancel  *)
(* first), dOK is the dialog as handleOK found it, also the dialog as    *)
(* handleCancel left it when both ran.                                    *)
History(b, cancelRan, okRan, dOK, clicks) ==
    [lastAction |-> IF okRan /\ Effective(b.kind, dOK)
                    THEN Written("ok", b.kind, handleOK(b.kind, dOK))
                    ELSE IF cancelRan THEN Written("cancel", b.kind, dOK)
                    ELSE b.lastAction,
     cancelSeen |-> (b.cancelSeen \/ cancelRan),
     validateCalls |-> IF okRan /\ b.kind = "input"
                       THEN inputDialog_validateCalls(dOK) ELSE <<>>,
     lastClick |-> IF b.kind = "single" /\ clicks # {} THEN Max(clicks)
                   ELSE b.lastClick,
     clickAtOK |-> IF b.kind # "single" THEN b.clickAtOK
                   ELSE IF okRan
                   THEN (IF dOK.AllowCustomEntry /\ dOK.customInput # ""
                         THEN -1 ELSE b.lastClick)
                   ELSE IF cancelRan THEN -1 ELSE b.clickAtOK]

(* The call b after an event ev in whose handling n actions were handled *)
(* (each followed by w.Perform(system.ActionClose)), the dialog became   *)
(* dd, the history h and the frame was answered by ans.                   *)
Handled(b, ev, n, dd, h, ans) ==
    LET end == LoopEnd(b.kind, dd, b.ret) IN
    [kind |-> b.kind, d |-> dd,
     w |-> IF n > 0 THEN Perform_ActionClose(b.w) ELSE b.w,
     e |-> ev, pc |-> end.pc, once |-> b.once, ret |-> end.ret, closes |-> n,
     validateCalls |-> h.validateCalls, cancelSeen |-> h.cancelSeen,
     lastClick |-> h.lastClick, clickAtOK |-> h.clickAtOK,
     lastAction |-> h.lastAction,
     frameOps |-> [ops |-> ans.ops, frames |-> ans.frames]]

(* The base dialog's Show starts its FrameEvent case with a call of     *)
(* applyWindowOptions.  The first call runs the function: it sleeps 50   *)
(* ms before anything else of the case is done.  The FrameEvent has been *)
(* returned by w.Event(); no click check, no layout and no e.Frame yet.  *)
Show_FrameEvent_Sleep(b) ==
    [b EXCEPT !.pc = "sleeping", !.e = FrameEvent(FALSE, FALSE), !.closes = 0,
              !.validateCalls = <<>>, !.frameOps = NoFrameAnswer]

(* applyWindowOptions() returns: after the sleep of its first call it    *)
(* has performed ActionCenter|ActionRaise on the window; a later call,   *)
(* and a Show without the function, does nothing.                         *)
applyWindowOptions(b) ==
    IF b.pc = "sleeping"
    THEN [b EXCEPT !.pc = "running", !.once = "done",
                   !.w = Perform_ActionCenter(b.w)]
    ELSE b

(* the loop of the call b is at a FrameEvent case it can go through: the *)
(* sleep is over, or applyWindowOptions does not sleep (any more)         *)
AtFrameEvent(b) == b.pc = "sleeping" \/ (b.pc = "running" /\ b.once # "armed")

(* mutant: the OK click is checked before the Cancel click *)
Show_FrameEvent_okFirst(b, cancelClicked, okClicked, edit, clicks) ==
    LET b0 == applyWindowOptions(b)
        d1 == IF okClicked THEN handleOK(b0.kind, b0.d) ELSE b0.d
        d2 == IF cancelClicked THEN handleCancel(b0.kind, d1) ELSE d1
        ans == FrameAnswer(b0.kind, d2, edit, clicks)
    IN Handled(b0, FrameEvent(cancelClicked, okClicked),
               Count(cancelClicked) + Count(okClicked), ans.d,
               History(b0, cancelClicked, okClicked /\ ~cancelClicked, b0.d, clicks),
               ans)

(* mutant: the layout pass runs before the click checks *)
Show_FrameEvent_layoutFirst(b, cancelClicked, okClicked, edit, clicks) ==
    LET b0 == applyWindowOptions(b)
        ans == FrameAnswer(b0.kind, b0.d, edit, clicks)
        d1 == IF cancelClicked THEN handleCancel(b0.kind, ans.d) ELSE ans.d
        d2 == IF okClicked THEN handleOK(b0.kind, d1) ELSE d1
    IN Handled(b0, FrameEvent(cancelClicked, okClicked),
               Count(cancelClicked) + Count(okClicked), d2,
               History(b0, cancelClicked, okClicked, d1, clicks), ans)

(* case app.FrameEvent of the call b, from the return of the call of    *)
(* applyWindowOptions where there is one: the Cancel click check, the OK *)
(* click check, then the layout pass and e.Frame                          *)
Show_FrameEvent(b, cancelClicked, okClicked, edit, clicks) ==
    LET b0 == applyWindowOptions(b)
        d1 == IF cancelClicked THEN handleCancel(b0.kind, b0.d) ELSE b0.d
        d2 == IF okClicked THEN handleOK(b0.kind, d1) ELSE d1
        ans == FrameAnswer(b0.kind, d2, edit, clicks)
    IN Handled(b0, FrameEvent(cancelClicked, okClicked),
               Count(cancelClicked) + Count(okClicked), ans.d,
               History(b0, cancelClicked, okClicked, d1, clicks), ans)

(* case key.Event of the call b *)
Show_KeyEvent(b, name, state) ==
    LET cancelRan == name = "Escape" /\ state = "Press"
        okRan == HandlesReturnKey(b.kind) /\ name = "Return" /\ state = "Press"
        d1 == IF cancelRan THEN handleCancel(b.kind, b.d) ELSE b.d
        d2 == IF okRan THEN handleOK(b.kind, d1) ELSE d1
    IN Handled(b, KeyEvent(name, state), Count(cancelRan) + Count(okRan), d2,
               History(b, cancelRan, okRan, d1, {}), NoFrameAnswer)

(* case app.DestroyEvent of the call b: "d.done = true; return ..." *)
Show_DestroyEvent(b, err) ==
    [b EXCEPT !.e = DestroyEvent(err),
              !.ret = [value |-> Value(b.kind, b.d), canceled |-> b.d.canceled,
                       err |-> err],
              !.w = [b.w EXCEPT !.destroyed = TRUE],
              !.d = [b.d EXCEPT !.done = TRUE],
              !.pc = "returned",
              !.closes = 0,
              !.validateCalls = <<>>,
              !.frameOps = NoFrameAnswer]

(* any other event type (a ConfigEvent, ...) matches no case *)
Show_OtherEvent(b) ==
    [b EXCEPT !.e = Event("Other"), !.closes = 0, !.validateCalls = <<>>,
              !.frameOps = NoFrameAnswer]

(* The steps of the one call of Spec: w.Event() returns an event to the  *)
(* Show loop of a dialog of type k.                                       *)
ShowFrameEvent(k) ==
    /\ kind = k
    /\ AtFrameEvent(Bundle)
    /\ \E cancelClicked, okClicked \in BOOLEAN :
       \E edit \in FrameEdits(k, d), clicks \in FrameClicks(k, d) :
          Becomes(Show_FrameEvent(Bundle, cancelClicked, okClicked, edit, clicks))
    /\ UNCHANGED <<calls, centerer, demo>>

ShowKeyEvent(k) ==
    /\ kind = k
    /\ pc = "running"
    /\ \E name \in KeyNames, state \in KeyStates :
          Becomes(Show_KeyEvent(Bundle, name, state))
    /\ UNCHANGED <<calls, centerer, demo>>

ShowDestroyEvent(k) ==
    /\ kind = k
    /\ pc = "running"
    /\ \E err \in Errs : Becomes(Show_DestroyEvent(Bundle, err))
    /\ UNCHANGED <<calls, centerer, demo>>

ShowOtherEvent ==
    /\ pc = "running"
    /\ Becomes(Show_OtherEvent(Bundle))
    /\ UNCHANGED <<calls, centerer, demo>>

(* w.Event() returns the first FrameEvent of a base dialog *)
BaseDialog_Show_FrameEvent_Sleep ==
    /\ kind = "base"
    /\ pc = "running"
    /\ once = "armed"
    /\ Becomes(Show_FrameEvent_Sleep(Bundle))
    /\ UNCHANGED <<calls, centerer, demo>>

BaseDialog_Show_FrameEvent == ShowFrameEvent("base")
BaseDialog_Show_KeyEvent == ShowKeyEvent("base")
BaseDialog_Show_DestroyEvent == ShowDestroyEvent("base")
inputDialog_Show_FrameEvent == ShowFrameEvent("input")
inputDialog_Show_KeyEvent == ShowKeyEvent("input")
inputDialog_Show_DestroyEvent == ShowDestroyEvent("input")
selectDialog_Show_FrameEvent == ShowFrameEvent("single")
selectDialog_Show_KeyEvent == ShowKeyEvent("single")
selectDialog_Show_DestroyEvent == ShowDestroyEvent("single")
multiSelectDialog_Show_FrameEvent == ShowFrameEvent("multi")
multiSelectDialog_Show_KeyEvent == ShowKeyEvent("multi")
multiSelectDialog_Show_DestroyEvent == ShowDestroyEvent("multi")

Next ==
    \/ BaseDialog_Show_FrameEvent_Sleep
    \/ BaseDialog_Show_FrameEvent
    \/ BaseDialog_Show_KeyEvent
    \/ BaseDialog_Show_DestroyEvent
    \/ inputDialog_Show_FrameEvent
    \/ inputDialog_Show_KeyEvent
    \/ inputDialog_Show_DestroyEvent
    \/ selectDialog_Show_FrameEvent
    \/ selectDialog_Show_KeyEvent
    \/ selectDialog_Show_DestroyEvent
    \/ multiSelectDialog_Show_FrameEvent
    \/ multiSelectDialog_Show_KeyEvent
    \/ multiSelectDialog_Show_DestroyEvent
    \/ ShowOtherEvent

Spec == Init /\ [][Next]_vars
-----------------------------------------------------------------------------
(* Vocabulary of the properties.  In a step, e' is the event handled.    *)

(* the step ran handleOK / handleCancel *)
OKRan ==
    \/ e'.type = "Frame" /\ e'.okClicked
    \/ e'.type = "Key" /\ e'.name = "Return" /\ e'.state = "Press"
         /\ HandlesReturnKey(kind)
CancelRan ==
    \/ e'.type = "Frame" /\ e'.cancelClicked
    \/ e'.type = "Key" /\ e'.name = "Escape" /\ e'.state = "Press"

(* the state is the one an OK / a Cancel action was just handled in *)
AfterOK ==
    \/ e.type = "Frame" /\ e.okClicked
    \/ e.type = "Key" /\ e.name = "Return" /\ e.state = "Press"
         /\ HandlesReturnKey(kind)

IsSelect == kind \in {"single", "multi"}

(* the free-text field holds something that counts *)
HasFreeText(dd) == dd.AllowCustomEntry /\ dd.customInput # ""

(* the checked choices in the order of the Choices list, said without   *)
(* the loop: the k-th element is the choice at the k-th checked index   *)
CheckedIndices(dd) == {i \in 1..Len(dd.checkboxes) : dd.checkboxes[i]}
CheckedChoices(dd) ==
    LET idx == CheckedIndices(dd)
        kth(k) == CHOOSE i \in idx : Cardinality({j \in idx : j <= i}) = k
    IN [k \in 1..Cardinality(idx) |-> dd.Choices[kth(k)]]

NothingSelected(dd) ==
    IF kind = "single" THEN dd.selectedIndex = -1 ELSE CheckedIndices(dd) = {}

-----------------------------------------------------------------------------
(* C1: in every dialog kind, once a Cancel action has been handled, Show *)
(* returns canceled = true and the zero result, whatever else is handled *)
(* in the same frame or before the window is destroyed.                   *)
C1_CancelAlwaysWins ==
    (pc = "returned" /\ cancelSeen) => (ret.canceled /\ ret.value = Zero(kind))

(* C2: input dialog: an OK action whose text the validator rejects       *)
(* requests no window close, leaves the result unchanged and canceled    *)
(* false, and the dialog keeps running.                                   *)
C2_RejectedOKKeepsRunning ==
    [][(kind = "input" /\ OKRan /\ ~CancelRan /\ Rejects(d.Validate, d.textInput))
         => /\ closes' = 0
            /\ d'.result = d.result
            /\ d'.canceled = FALSE
            /\ pc' = "running"]_vars

(* C3: select dialog, single-select and multi-select: an OK action with  *)
(* custom entry enabled and a non-empty free text yields the free text   *)
(* only, no list selection appears in the result.                         *)
C3_FreeTextOnly ==
    [][(IsSelect /\ OKRan /\ HasFreeText(d))
         => d'.selected = IF kind = "single" THEN d.customInput
                          ELSE <<d.customInput>>]_vars

(* C4: in every dialog kind Show returns only when the window has        *)
(* reported its destruction (a DestroyEvent was received).                *)
C4_ReturnsOnlyOnDestroy ==
    pc = "returned" => w.destroyed

(* C5: in every dialog kind the error Show returns is exactly the error  *)
(* carried by the window's DestroyEvent.                                  *)
C5_ErrIsDestroyErr ==
    pc = "returned" => (e.type = "Destroy" /\ ret.err = e.Err)

(* C6: single-select dialog: the user clicks choice i and then triggers  *)
(* OK with an empty free-text field: Show returns Choices[i] with        *)
(* canceled = false, whatever the default selection was.                  *)
C6_ClickThenOK ==
    (pc = "returned" /\ kind = "single" /\ clickAtOK >= 0)
        => (ret.value = d.Choices[clickAtOK + 1] /\ ~ret.canceled)

C6_Witness ==
    /\ pc = "returned" /\ kind = "single"
    /\ d.Choices = <<"A", "B">> /\ d.DefaultSelection = "A"
    /\ clickAtOK = 1 /\ ret.value = "B" /\ ~ret.canceled

(* C7: input dialog: an OK action calls the validator, if there is one,  *)
(* with exactly the current field text; with no validator or one that    *)
(* accepts, the result becomes that text and canceled becomes false; and *)
(* Show returns the result and canceled as the last action left them.    *)
C7_OKTakesFieldText ==
    [][kind = "input" =>
         /\ OKRan =>
              /\ ~d.Validate.isNil => validateCalls' = <<d.textInput>>
              /\ ~Rejects(d.Validate, d.textInput)
                    => (d'.result = d.textInput /\ ~d'.canceled)
         /\ (~OKRan /\ ~CancelRan)
              => (d'.result = d.result /\ d'.canceled = d.canceled)
         /\ e'.type = "Destroy"
              => (ret'.value = d.result /\ ret'.canceled = d.canceled)]_vars

C7_Witness ==
    /\ kind = "input" /\ pc = "returned"
    /\ ~d.Validate.isNil /\ d.DefaultText = ""
    /\ ret.value = "Z" /\ ~ret.canceled

(* C8: base dialog: an OK action yields confirmed = true and canceled =  *)
(* false, a Cancel action yields confirmed = false and canceled = true,  *)
(* and confirmed and canceled are never both true.                        *)
C8_BaseOutcome ==
    /\ [](kind = "base" =>
            /\ ~(d.confirmed /\ d.canceled)
            /\ pc = "returned" => ~(ret.value /\ ret.canceled))
    /\ [][kind = "base" =>
            /\ OKRan => (d'.confirmed /\ ~d'.canceled)
            /\ (CancelRan /\ ~OKRan) => (~d'.confirmed /\ d'.canceled)]_vars

C8_Witness ==
    kind = "base" /\ cancelSeen /\ AfterOK /\ d.confirmed /\ ~d.canceled

(* C9: select dialog construction: a default value that does not occur   *)
(* in the choice list pre-selects nothing (single-select: active index   *)
(* -1; multi-select: a check box is set only for a choice that is among   *)
(* the defaults, so none is when no default occurs in the list), and an  *)
(* immediate OK with empty free text then returns an empty result.        *)
NoDefaultInChoices(dd) ==
    IF kind = "single" THEN dd.DefaultSelection \notin Range(dd.Choices)
    ELSE Range(dd.DefaultSelections) \cap Range(dd.Choices) = {}

C9_NoPreselection ==
    /\ []((IsSelect /\ e.type = "None") =>
            /\ (kind = "single" /\ NoDefaultInChoices(d)) => d.selectedIndex = -1
            /\ kind = "multi" =>
                 /\ Len(d.checkboxes) = Len(d.Choices)
                 /\ \A i \in 1..Len(d.Choices) :
                        d.checkboxes[i] => d.Choices[i] \in Range(d.DefaultSelections)
                 /\ NoDefaultInChoices(d) => CheckedIndices(d) = {})
    /\ [][(IsSelect /\ e.type = "None" /\ NoDefaultInChoices(d) /\ OKRan)
            => (d'.selected = Zero(kind) /\ ~d'.canceled)]_vars

C9_Witness ==
    /\ kind = "multi" /\ e.type = "None"
    /\ d.Choices = <<"A", "A">> /\ d.DefaultSelections = <<"Z", "B">>
    /\ CheckedIndices(d) = {}

(* C10: select dialog: an OK action with nothing selected and no free    *)
(* text yields an empty result with canceled = false, and no error: Show *)
(* does not return on it, it goes on to wait for the window to close.    *)
C10_EmptySelectionOK ==
    [][(IsSelect /\ OKRan /\ NothingSelected(d) /\ ~HasFreeText(d))
         => /\ d'.selected = Zero(kind)
            /\ ~d'.canceled
            /\ pc' = "running" /\ ret' = ret]_vars

C10_Witness ==
    /\ IsSelect /\ AfterOK /\ cancelSeen /\ Len(d.Choices) > 0
    /\ NothingSelected(d) /\ ~HasFreeText(d)
    /\ d.selected = Zero(kind) /\ ~d.canceled /\ pc = "running"

(* The input dialog alone *)
InitInput == Init /\ kind = "input"
NextInput ==
    \/ inputDialog_Show_FrameEvent
    \/ inputDialog_Show_KeyEvent
    \/ inputDialog_Show_DestroyEvent
    \/ ShowOtherEvent
SpecInput == InitInput /\ [][NextInput]_vars

ReturnPressed == e'.type = "Key" /\ e'.name = "Return" /\ e'.state = "Press"
EscapePressed == e'.type = "Key" /\ e'.name = "Escape" /\ e'.state = "Press"

(* C11: in every dialog kind an Enter key press while the dialog is      *)
(* running has the effect of an OK click: handleOK runs and a window     *)
(* close is requested.                                                    *)
C11_EnterIsOK ==
    [][ReturnPressed => (d' = handleOK(kind, d) /\ closes' = 1)]_vars

(* C12: in every dialog kind an Escape key press while the dialog is     *)
(* running has the effect of a Cancel click: the result is zeroed,       *)
(* canceled is set to true and a window close is requested.               *)
C12_EscapeIsCancel ==
    [][EscapePressed =>
         /\ Value(kind, d') = Zero(kind) /\ d'.canceled
         /\ d' = handleCancel(kind, d)
         /\ closes' = 1 /\ w'.closeRequested]_vars

C12_Witness ==
    /\ e.type = "Key" /\ e.name = "Escape" /\ e.state = "Press"
    /\ kind = "input" /\ d.canceled /\ d.result = "" /\ d.textInput = "Z"
    /\ w.closeRequested /\ closes = 1 /\ lastAction.act = "cancel"

(* C13: input dialog: the text field is pre-filled with DefaultText at   *)
(* construction, only a frame can change the field, and an OK action on  *)
(* the unedited field yields DefaultText with canceled = false whenever  *)
(* there is no validator or the validator accepts DefaultText.            *)
C13_DefaultTextPrefilled ==
    /\ []((kind = "input" /\ e.type = "None") => d.textInput = d.DefaultText)
    /\ [][kind = "input" =>
            /\ e'.type # "Frame" => d'.textInput = d.textInput
            /\ (OKRan /\ d.textInput = d.DefaultText
                  /\ ~Rejects(d.Validate, d.DefaultText))
                 => (d'.result = d.DefaultText /\ ~d'.canceled)
            /\ e'.type = "Destroy"
                 => (ret'.value = d.result /\ ret'.canceled = d.canceled)]_vars

C13_Witness ==
    /\ kind = "input" /\ pc = "returned"
    /\ d.DefaultText = "A" /\ ~d.Validate.isNil
    /\ ret.value = "A" /\ ~ret.canceled

(* C14: once an OK action has been accepted, no later event moves the    *)
(* dialog to Canceled or changes the confirmed result.                    *)
C14_ConfirmedIsFinal ==
    [][lastAction.act = "ok"
         => (~d'.canceled /\ Value(kind, d') = Value(kind, d))]_vars

(* Two Prompt* calls on two goroutines, as the demo starts them.  The    *)
(* dialog structs and the windows of the calls are objects of one heap,  *)
(* calls.heap, an object's address being its index; calls.frame[i] holds *)
(* what goroutine i keeps of its call: in d and w the addresses of its   *)
(* dialog and of its window, and the locals of its Show.  calls.last is  *)
(* the goroutine whose event was handled in the latest step.             *)
CallIds == {1, 2}

(* the calls the demo's buttons start: PromptInput with a default text   *)
(* and no validator, PromptSelect (the multi-select dialog) with one     *)
(* default and custom entry allowed, PromptBase                          *)
TwoKinds == {"base", "input", "multi"}
TwoDialogs(k) ==
    CASE k = "base" -> NewBaseDialog
      [] k = "input" -> NewInputDialog("A", [isNil |-> TRUE, accepts |-> {}])
      [] k = "multi" -> NewMultiSelectDialog(<<"A">>, <<"A">>, TRUE)

(* the text edits a frame of the two calls can carry *)
TwoEdits == {NoEdit, "A", "Z"}

(* mutant: an object equal to one that exists already is not allocated   *)
(* again, the existing one is handed out                                  *)
NewObject_pooled(h, obj) ==
    IF \E a \in 1..Len(h) : h[a] = obj
    THEN [heap |-> h, addr |-> CHOOSE a \in 1..Len(h) : h[a] = obj]
    ELSE [heap |-> Append(h, obj), addr |-> Len(h) + 1]

(* "d := &inputDialog{...}", "w := app.Window{}": the object is new, at  *)
(* an address no other object has                                         *)
NewObject(h, obj) == [heap |-> Append(h, obj), addr |-> Len(h) + 1]

(* Prompt*(opts) on the heap h: New*Dialog allocates the dialog struct,  *)
(* then Show its window; the loop of Show is about to start.             *)
NewCall(h, k) ==
    LET dlg == NewObject(h, TwoDialogs(k))
        win == NewObject(dlg.heap, NewWindow)
    IN [heap |-> win.heap,
        frame |-> [kind |-> k, d |-> dlg.addr, w |-> win.addr, e |-> NoEvent,
                   pc |-> "running",
                   once |-> IF k = "base" THEN "armed" ELSE "none",
                   ret |-> [value |-> Zero(k), canceled |-> FALSE, err |-> "nil"],
                   closes |-> 0, validateCalls |-> <<>>, cancelSeen |-> FALSE,
                   lastClick |-> -1, clickAtOK |-> -1,
                   lastAction |-> [act |-> "none", value |-> Zero(k),
                                   canceled |-> FALSE],
                   frameOps |-> NoFrameAnswer]]

InitTwo ==
    /\ InitDialog /\ kind = "base" /\ centerer = "none" /\ demo = NoDemo
    /\ \E k1, k2 \in TwoKinds :
          LET c1 == NewCall(<<>>, k1)
              c2 == NewCall(c1.heap, k2)
          IN calls = [heap |-> c2.heap, frame |-> <<c1.frame, c2.frame>>,
                      last |-> 0]

(* the call of goroutine i as its Show finds it: the dialog its receiver *)
(* d points to, the window w, its locals                                  *)
Load(c, i) ==
    [c.frame[i] EXCEPT !.d = c.heap[c.frame[i].d], !.w = c.heap[c.frame[i].w]]

(* goroutine i has handled an event and its call is in b: the dialog and *)
(* the window are written where its d and w point to                      *)
Store(c, i, b) ==
    [heap |-> [c.heap EXCEPT ![c.frame[i].d] = b.d, ![c.frame[i].w] = b.w],
     frame |-> [c.frame EXCEPT ![i] = [b EXCEPT !.d = c.frame[i].d,
                                                !.w = c.frame[i].w]],
     last |-> i]

(* w.Event() returns an event to the Show loop of one of the goroutines *)
Prompt_Show_FrameEvent_Sleep ==
    /\ \E i \in CallIds :
          \E b \in {Load(calls, i)} :
          /\ b.kind = "base"
          /\ b.pc = "running"
          /\ b.once = "armed"
          /\ calls' = Store(calls, i, Show_FrameEvent_Sleep(b))
    /\ UNCHANGED <<kind, d, w, e, pc, once, ret, closes, validateCalls,
                   cancelSeen, lastClick, clickAtOK, lastAction, frameOps,
                   centerer, demo>>

Prompt_Show_FrameEvent ==
    /\ \E i \in CallIds :
          \E b \in {Load(calls, i)} :
          /\ AtFrameEvent(b)
          /\ \E cancelClicked, okClicked \in BOOLEAN :
             \E edit \in FrameEdits(b.kind, b.d) \cap TwoEdits,
                clicks \in FrameClicks(b.kind, b.d) :
                calls' = Store(calls, i,
                               Show_FrameEvent(b, cancelClicked, okClicked, edit, clicks))
    /\ UNCHANGED <<kind, d, w, e, pc, once, ret, closes, validateCalls,
                   cancelSeen, lastClick, clickAtOK, lastAction, frameOps,
                   centerer, demo>>

Prompt_Show_KeyEvent ==
    /\ \E i \in CallIds :
          \E b \in {Load(calls, i)} :
          /\ b.pc = "running"
          /\ \E name \in KeyNames, state \in KeyStates :
                calls' = Store(calls, i, Show_KeyEvent(b, name, state))
    /\ UNCHANGED <<kind, d, w, e, pc, once, ret, closes, validateCalls,
                   cancelSeen, lastClick, clickAtOK, lastAction, frameOps,
                   centerer, demo>>

Prompt_Show_DestroyEvent ==
    /\ \E i \in CallIds :
          \E b \in {Load(calls, i)} :
          /\ b.pc = "running"
          /\ \E err \in Errs : calls' = Store(calls, i, Show_DestroyEvent(b, err))
    /\ UNCHANGED <<kind, d, w, e, pc, once, ret, closes, validateCalls,
                   cancelSeen, lastClick, clickAtOK, lastAction, frameOps,
                   centerer, demo>>

Prompt_Show_OtherEvent ==
    /\ \E i \in CallIds :
          \E b \in {Load(calls, i)} :
          /\ b.pc = "running"
          /\ calls' = Store(calls, i, Show_OtherEvent(b))
    /\ UNCHANGED <<kind, d, w, e, pc, once, ret, closes, validateCalls,
                   cancelSeen, lastClick, clickAtOK, lastAction, frameOps,
                   centerer, demo>>

NextTwo ==
    \/ Prompt_Show_FrameEvent_Sleep
    \/ Prompt_Show_FrameEvent
    \/ Prompt_Show_KeyEvent
    \/ Prompt_Show_DestroyEvent
    \/ Prompt_Show_OtherEvent
SpecTwo == InitTwo /\ [][NextTwo]_vars

(* what a call returned is what its own latest action wrote, or the zero *)
(* result when it handled no action                                      *)
OwnOutcome(b) ==
    b.pc = "returned" =>
        IF b.lastAction.act = "none"
        THEN b.ret.value = Zero(b.kind) /\ ~b.ret.canceled
        ELSE b.ret.value = b.lastAction.value
                /\ b.ret.canceled = b.lastAction.canceled

(* C15: two dialogs run concurrently: an event handled by one of them    *)
(* changes nothing of what the other one finds through its own dialog    *)
(* and window (its result, canceled flag, completion flag, selection     *)
(* state, window and returned triple), and each call returns the outcome *)
(* of its own events only.                                                *)
C15_InstancesIndependent ==
    /\ [][\A j \in CallIds :
             j # calls'.last => Load(calls', j) = Load(calls, j)]_vars
    /\ [](\A j \in CallIds : OwnOutcome(Load(calls, j)))

C15_Witness ==
    LET a == Load(calls, 1)
        b == Load(calls, 2)
    IN /\ calls.last = 1
       /\ a.pc = "returned" /\ b.pc = "returned"
       /\ a.kind = "input" /\ b.kind = "multi"
       /\ a.ret.value = "Z" /\ ~a.ret.canceled
       /\ b.ret.canceled /\ b.ret.value = <<>>
       /\ b.d.checkboxes = <<FALSE>> /\ b.d.customInput = "A"
       /\ a.lastAction.act = "ok" /\ b.lastAction.act = "cancel"

(* The window system delivers a DestroyEvent once a close was requested. *)
DestroyAfterCloseRequest ==
    /\ w.closeRequested
    /\ \/ BaseDialog_Show_DestroyEvent
       \/ inputDialog_Show_DestroyEvent
       \/ selectDialog_Show_DestroyEvent
       \/ multiSelectDialog_Show_DestroyEvent

(* The sleep of applyWindowOptions ends and the FrameEvent case goes on. *)
applyWindowOptions_Returns == pc = "sleeping" /\ BaseDialog_Show_FrameEvent

SpecFair ==
    Spec /\ WF_vars(DestroyAfterCloseRequest) /\ WF_vars(applyWindowOptions_Returns)

(* C16: in every dialog kind every handled OK or Cancel action requests  *)
(* the window to close, Show has not returned unless a close was         *)
(* requested or a DestroyEvent arrived, and, the window system           *)
(* delivering a DestroyEvent after a close request, Show eventually      *)
(* returns after any such action.                                         *)
C16_ActionsTerminate ==
    /\ [][(OKRan \/ CancelRan) => (closes' >= 1 /\ w'.closeRequested)]_vars
    /\ [](pc = "returned" => (w.closeRequested \/ w.destroyed))
    /\ (w.closeRequested ~> pc = "returned")

C16_Witness ==
    /\ pc = "returned" /\ w.closeRequested /\ w.destroyed
    /\ lastAction.act = "ok" /\ cancelSeen

(* C17: in every dialog kind the result and canceled flag Show returns   *)
(* are the ones written by the most recent OK or Cancel action that had  *)
(* an effect (an OK the validator rejects has none).                      *)
C17_LastActionWins ==
    (pc = "returned" /\ lastAction.act # "none")
        => (ret.value = lastAction.value /\ ret.canceled = lastAction.canceled)

C17_Witness ==
    /\ pc = "returned" /\ kind = "input"
    /\ cancelSeen /\ lastAction.act = "ok"
    /\ ret.value = "Z" /\ ~ret.canceled /\ d.textInput = "A"

(* C18: input dialog with a validator: whenever Show returns canceled =  *)
(* false, the returned text is one the validator accepted.                *)
C18_ReturnsOnlyAccepted ==
    (kind = "input" /\ ~d.Validate.isNil /\ pc = "returned" /\ ~ret.canceled)
        => ret.value \in d.Validate.accepts

(* C19: a validator rejection is swallowed: the rejected OK action       *)
(* leaves result and canceled as they were before it (canceled = true    *)
(* included), Show does not return on it, and the only error Show        *)
(* returns is the one of the DestroyEvent.                                *)
C19_RejectionSwallowed ==
    /\ [][(kind = "input" /\ OKRan /\ Rejects(d.Validate, d.textInput)) =>
            /\ ~CancelRan => (d'.result = d.result /\ d'.canceled = d.canceled)
            /\ CancelRan => (d'.result = "" /\ d'.canceled)
            /\ pc' = "running" /\ ret' = ret]_vars
    /\ []((kind = "input" /\ pc = "returned")
            => (e.type = "Destroy" /\ ret.err = e.Err))

C19_Witness ==
    /\ kind = "input" /\ pc = "running"
    /\ e.type = "Key" /\ e.name = "Return" /\ e.state = "Press"
    /\ validateCalls = <<d.textInput>> /\ Rejects(d.Validate, d.textInput)
    /\ d.canceled /\ lastAction.act = "cancel"

(* C20: the window is destroyed before any OK or Cancel action had an    *)
(* effect: Show returns the zero result with canceled = false and the    *)
(* error of the DestroyEvent, whatever the field, the default text or    *)
(* the pre-selected default hold.                                         *)
C20_ClosedWithoutAction ==
    (pc = "returned" /\ lastAction.act = "none")
        => /\ ret.value = Zero(kind) /\ ~ret.canceled
           /\ e.type = "Destroy" /\ ret.err = e.Err

C20_Witness ==
    /\ pc = "returned" /\ lastAction.act = "none" /\ ~cancelSeen
    /\ kind = "single" /\ d.selectedIndex = 0 /\ d.DefaultSelection = "A"
    /\ ret.value = "" /\ ~ret.canceled /\ ret.err = "ErrWindow"

(* The select dialogs alone, and the single-select dialog alone *)
InitSelect == Init /\ kind \in {"single", "multi"}
NextSelect ==
    \/ selectDialog_Show_FrameEvent
    \/ selectDialog_Show_KeyEvent
    \/ selectDialog_Show_DestroyEvent
    \/ multiSelectDialog_Show_FrameEvent
    \/ multiSelectDialog_Show_KeyEvent
    \/ multiSelectDialog_Show_DestroyEvent
    \/ ShowOtherEvent
SpecSelect == InitSelect /\ [][NextSelect]_vars

InitSingle == Init /\ kind = "single"
NextSingle ==
    \/ selectDialog_Show_FrameEvent
    \/ selectDialog_Show_KeyEvent
    \/ selectDialog_Show_DestroyEvent
    \/ ShowOtherEvent
SpecSingle == InitSingle /\ [][NextSingle]_vars

(* C21: in every reachable state of every dialog kind, canceled = true   *)
(* implies that the result field is zero.                                 *)
C21_CanceledMeansZero == d.canceled => Value(kind, d) = Zero(kind)

C21_Witness ==
    /\ kind = "single" /\ pc = "running" /\ d.canceled /\ d.selected = ""
    /\ d.customInput = "A" /\ d.selectedIndex = 1 /\ lastAction.act = "cancel"

(* the fields an action writes: result, canceled flag, completion flag *)
Outcome(k, dd) == <<Value(k, dd), dd.canceled, dd.done>>

(* C22: editing the text field, typing free text, clicking a choice or   *)
(* toggling a check box never changes the result, the canceled flag or   *)
(* the completion flag: a step without OK action, Cancel action and      *)
(* DestroyEvent leaves the three unchanged, and a frame with an action   *)
(* leaves them as the action wrote them.                                  *)
C22_WidgetsLeaveOutcome ==
    [][/\ (~OKRan /\ ~CancelRan /\ e'.type # "Destroy")
            => Outcome(kind, d') = Outcome(kind, d)
       /\ e'.type = "Frame" =>
            LET d1 == IF e'.cancelClicked THEN handleCancel(kind, d) ELSE d
                d2 == IF e'.okClicked THEN handleOK(kind, d1) ELSE d1
            IN Outcome(kind, d') = Outcome(kind, d2)]_vars

C22_Witness ==
    /\ kind = "multi" /\ e.type = "Frame" /\ ~e.okClicked /\ ~e.cancelClicked
    /\ d.DefaultSelections = <<>> /\ CheckedIndices(d) # {} /\ d.customInput = "A"
    /\ d.selected = <<>> /\ ~d.canceled /\ ~d.done /\ lastAction.act = "none"

(* C23: in every dialog kind, when both buttons are reported clicked in  *)
(* one frame, handleCancel runs first and handleOK second: a close is    *)
(* requested twice, and the frame leaves the OK outcome (canceled =      *)
(* false) when the OK is effective and the Cancel outcome otherwise.      *)
C23_CancelBeforeOK ==
    [][(e'.type = "Frame" /\ e'.cancelClicked /\ e'.okClicked) =>
          LET dc == handleCancel(kind, d) IN
          /\ closes' = 2
          /\ Effective(kind, dc) =>
                (~d'.canceled /\ Value(kind, d') = Value(kind, handleOK(kind, dc)))
          /\ ~Effective(kind, dc) =>
                (d'.canceled /\ Value(kind, d') = Zero(kind))]_vars

C23_Witness ==
    /\ e.type = "Frame" /\ e.cancelClicked /\ e.okClicked /\ closes = 2
    /\ kind = "base" /\ d.confirmed /\ ~d.canceled /\ lastAction.act = "ok"

(* C24: single-select dialog: a frame's OK click computes the result     *)
(* from the active index as it was before the frame; a choice click of   *)
(* the same frame changes the index only afterwards, in the layout step.  *)
C24_OKBeforeChoiceClick ==
    [][(kind = "single" /\ e'.type = "Frame" /\ e'.okClicked /\ ~HasFreeText(d))
         => /\ d'.selected = IF d.selectedIndex >= 0
                               THEN d.Choices[d.selectedIndex + 1] ELSE ""
            /\ lastClick' # lastClick => d'.selectedIndex = lastClick']_vars

C24_Witness ==
    /\ kind = "single" /\ e.type = "Frame" /\ e.okClicked /\ ~e.cancelClicked
    /\ ~d.AllowCustomEntry /\ d.Choices = <<"A", "B">>
    /\ d.selected = "A" /\ d.selectedIndex = 1 /\ lastClick = 1

(* C25: single-select dialog: -1 <= selectedIndex < len(Choices) always; *)
(* a choice click replaces the active index; once the index is >= 0 it   *)
(* never returns to -1.                                                   *)
C25_ActiveIndex ==
    /\ [](kind = "single" =>
            (d.selectedIndex >= -1 /\ d.selectedIndex < Len(d.Choices)))
    /\ [][kind = "single" =>
            /\ d.selectedIndex >= 0 => d'.selectedIndex >= 0
            /\ lastClick' # lastClick => d'.selectedIndex = lastClick'
            /\ d'.selectedIndex # d.selectedIndex
                 => (e'.type = "Frame" /\ d'.selectedIndex = lastClick')]_vars

C25_Witness ==
    /\ kind = "single" /\ d.Choices = <<"A", "B">> /\ d.DefaultSelection = "A"
    /\ d.selectedIndex = 1 /\ lastClick = 1 /\ e.type = "Key"

(* C26: defaults are matched by value at construction: the single-select *)
(* index is the first position whose choice equals the default (-1 when  *)
(* there is none); multi-select check box i is checked exactly when      *)
(* Choices[i] equals some default; there is one check box per choice.     *)
C26_DefaultMatching ==
    /\ (kind = "single" /\ e.type = "None") =>
          LET M == {i \in 1..Len(d.Choices) : d.Choices[i] = d.DefaultSelection}
          IN /\ M = {} => d.selectedIndex = -1
             /\ M # {} => /\ (d.selectedIndex + 1) \in M
                          /\ \A i \in M : d.selectedIndex + 1 <= i
    /\ kind = "multi" =>
          /\ Len(d.checkboxes) = Len(d.Choices)
          /\ e.type = "None" =>
                \A i \in 1..Len(d.Choices) :
                    d.checkboxes[i] <=> (d.Choices[i] \in Range(d.DefaultSelections))

C26_Witness ==
    /\ kind = "single" /\ e.type = "None"
    /\ d.Choices = <<"A", "A">> /\ d.DefaultSelection = "A" /\ d.selectedIndex = 0

(* C27: multi-select dialog: the list an OK action produces is exactly   *)
(* the checked choices in the order of the Choices list, followed by the *)
(* free text as last element when custom entry is enabled and the text   *)
(* is not empty.                                                          *)
C27_CheckedInListOrder ==
    [][(kind = "multi" /\ OKRan) =>
          /\ d'.selected = CheckedChoices(d)
                 \o (IF HasFreeText(d) THEN <<d.customInput>> ELSE <<>>)
          /\ Len(d'.selected) = Cardinality(CheckedIndices(d))
                                   + Count(HasFreeText(d))
          /\ ~d'.canceled]_vars

C27_Witness ==
    /\ kind = "multi" /\ AfterOK /\ d.Choices = <<"B", "A">>
    /\ d.DefaultSelections = <<>> /\ CheckedIndices(d) = {1, 2}
    /\ d.customInput = "A" /\ d.selected = <<"B", "A", "A">>

(* s is t with some elements left out *)
IsSubList(s, t) ==
    \E f \in [1..Len(s) -> 1..Len(t)] :
        /\ \A i \in 1..Len(s) : s[i] = t[f[i]]
        /\ \A i, j \in 1..Len(s) : i < j => f[i] < f[j]

(* C28: with custom entry disabled the free-text field never contributes *)
(* to the result: the single-select result is "" or an element of        *)
(* Choices, the multi-select result is a sub-list of Choices, in the     *)
(* dialog and in what Show returns.                                       *)
C28_OnlyChoicesWithoutCustomEntry ==
    (IsSelect /\ ~d.AllowCustomEntry) =>
        /\ d.customInput = ""
        /\ kind = "single" =>
              /\ d.selected \in ({""} \cup Range(d.Choices))
              /\ ret.value \in ({""} \cup Range(d.Choices))
        /\ kind = "multi" =>
              /\ IsSubList(d.selected, d.Choices)
              /\ IsSubList(ret.value, d.Choices)

C28_Witness ==
    /\ kind = "multi" /\ ~d.AllowCustomEntry /\ pc = "returned"
    /\ d.Choices = <<"A", "B">> /\ ret.value = <<"B">> /\ ~ret.canceled

(* the pass shows the dialog dd: the text of its editor, its check      *)
(* boxes, a mark on its active choice, its custom entry field            *)
Shows(k, dd, pass) ==
    CASE k = "base" -> pass = <<>>
      [] k = "input" -> pass = <<dd.textInput>>
      [] k = "single" ->
           /\ Len(pass[1]) = Len(dd.Choices)
           /\ dd.selectedIndex >= 0 => pass[1][dd.selectedIndex + 1]
           /\ dd.AllowCustomEntry => pass[2] = dd.customInput
      [] k = "multi" ->
           /\ pass[1] = dd.checkboxes
           /\ dd.AllowCustomEntry => pass[2] = dd.customInput

(* C29: in every dialog kind each FrameEvent is answered by exactly one  *)
(* layout pass and one Frame call before the next event is fetched or    *)
(* Show returns, also when an action was handled and a close requested   *)
(* in that frame: once the case is through, one pass is recorded in      *)
(* gtx.Ops, it shows the dialog as it is after the frame, and that list  *)
(* is handed to the window once; while the base dialog sleeps at the     *)
(* start of its first frame nothing is recorded yet and the next step of *)
(* the loop is the rest of that frame.  No other event is answered by a  *)
(* layout or a Frame.                                                     *)
C29_FrameProtocol ==
    /\ [][(e'.type = "Frame" /\ pc' # "sleeping")
            => /\ Len(frameOps'.ops) = 1
               /\ frameOps'.frames = <<frameOps'.ops>>
               /\ Shows(kind, d', frameOps'.ops[1])]_vars
    /\ [][pc = "sleeping" => (e'.type = "Frame" /\ pc' # "sleeping")]_vars
    /\ []((e.type = "Frame" /\ pc # "sleeping")
            => Len(frameOps.ops) = 1 /\ Len(frameOps.frames) = 1)
    /\ []((e.type # "Frame" \/ pc = "sleeping")
            => frameOps.ops = <<>> /\ frameOps.frames = <<>>)

C29_Witness ==
    /\ pc = "returned" /\ e.type = "Frame" /\ e.okClicked /\ closes = 1
    /\ w.closeRequested /\ kind = "single" /\ d.customInput = "A"
    /\ frameOps.frames = <<<<<<[i \in 1..Len(d.Choices) |-> FALSE], "A">>>>>>

(* The sized input dialog: Show starts a goroutine that sleeps and then  *)
(* centres the window, whatever the event loop is doing by then.         *)
InitSized ==
    /\ InitDialog /\ kind = "input" /\ calls = NoCalls /\ demo = NoDemo
    /\ centerer = "sleeping"

inputDialog_Show_centerGoroutine ==
    /\ kind = "input"
    /\ centerer = "sleeping"
    /\ w' = Perform_ActionCenter(w)
    /\ centerer' = IF pc = "returned" THEN "performedAfterReturn"
                                       ELSE "performedWhileRunning"
    /\ UNCHANGED <<kind, d, e, pc, once, ret, closes, validateCalls, cancelSeen, lastClick,
                   clickAtOK, lastAction, calls, frameOps, demo>>

NextSized ==
    \/ inputDialog_Show_FrameEvent
    \/ inputDialog_Show_KeyEvent
    \/ inputDialog_Show_DestroyEvent
    \/ ShowOtherEvent
    \/ inputDialog_Show_centerGoroutine
SpecSized == InitSized /\ [][NextSized]_vars

(* C30: every operation on a dialog and on its window is performed by    *)
(* the event loop running Show: nothing else acts on the window while    *)
(* the loop runs or after Show has returned.                              *)
C30_SingleThread ==
    centerer \notin {"performedWhileRunning", "performedAfterReturn"}

(* The demo application (cmd/gioui-dialog): its event loop draws three   *)
(* buttons and resultText; a click on a button starts a goroutine that   *)
(* runs one Prompt* call and then assigns resultText.  The dialog inside *)
(* a call is the model above; here a call is taken by what it returns.   *)

MaxDemoCalls == 2
DemoCalls == 1..MaxDemoCalls

(* the buttons in the order eventLoop checks them, by the dialog started *)
DemoButtons == <<"input", "multi", "base">>

(* In the demo a string is the sequence of its characters, each given   *)
(* by its code point, so that formatting can go through them; a byte     *)
(* that is not part of a valid UTF-8 encoding is given as InvalidByte.   *)
(* Characters up to MaxRune are covered.                                 *)
MaxRune == 255
Runes == 0..MaxRune
InvalidByte(b) == -b

Str_Error == <<69, 114, 114, 111, 114>>  \* "Error"
Str_Canceled == <<67, 97, 110, 99, 101, 108, 101, 100>>  \* "Canceled"
Str_BaseCanceled ==
    <<66, 97, 115, 101, 32, 100, 105, 97, 108, 111, 103, 32, 99, 97, 110, 99, 101, 108, 101, 100>>  \* "Base dialog canceled"
Str_BaseConfirmed ==
    <<66, 97, 115, 101, 32, 100, 105, 97, 108, 111, 103, 32, 99, 111, 110, 102, 105, 114, 109, 101, 100>>  \* "Base dialog confirmed"
Str_Input == <<73, 110, 112, 117, 116, 58, 32>>  \* "Input: "
Str_Selection ==
    <<83, 101, 108, 101, 99, 116, 105, 111, 110, 58, 32>>  \* "Selection: "
Str_A == <<65>>
Str_B == <<66>>

(* neither is a text: no assignment made, words of different texts *)
NoWrite == <<-1>>
Torn == <<-2>>

(* the texts an input call returns here: "", "A", a"\b, a form feed     *)
(* with a line feed, a no-break space with an invalid byte 0xff           *)
DemoTexts ==
    {<<>>, <<65>>, <<97, 34, 92, 98>>, <<12, 10>>, <<160, InvalidByte(255)>>}

(* strconv.IsPrint on the covered characters *)
IsPrint(r) == (r >= 32 /\ r <= 126) \/ (r >= 161 /\ r <= MaxRune /\ r # 173)

(* lower-case hexadecimal digits of n, width digits *)
HexDigit(n) == IF n < 10 THEN 48 + n ELSE 87 + n
RECURSIVE Hex(_, _)
Hex(n, width) ==
    IF width = 0 THEN <<>>
    ELSE Append(Hex(n \div 16, width - 1), HexDigit(n % 16))

(* strconv.Quote on one character, which %q applies: the quote and the   *)
(* backslash get a backslash in front; a printable character stays;      *)
(* \a \b \f \n \r \t \v have their letter; another control character     *)
(* and an invalid byte become \x and two digits, another character that  *)
(* is not printable \u and four digits.                                  *)
EscapeChar(c) ==
    CASE c < 0 /\ -c <= 255 -> <<92, 120>> \o Hex(-c, 2)
      [] c = 34 -> <<92, 34>>
      [] c = 92 -> <<92, 92>>
      [] c \in Runes /\ c \notin {34, 92} /\ IsPrint(c) -> <<c>>
      [] c = 7 -> <<92, 97>>
      [] c = 8 -> <<92, 98>>
      [] c = 12 -> <<92, 102>>
      [] c = 10 -> <<92, 110>>
      [] c = 13 -> <<92, 114>>
      [] c = 9 -> <<92, 116>>
      [] c = 11 -> <<92, 118>>
      [] c \in Runes /\ ((c < 32 /\ c \notin 7..13) \/ c = 127)
           -> <<92, 120>> \o Hex(c, 2)
      [] c \in Runes /\ c >= 128 /\ ~IsPrint(c) -> <<92, 117>> \o Hex(c, 4)
RECURSIVE Escaped(_, _)
Escaped(chars, from) ==
    IF from > Len(chars) THEN <<>>
    ELSE EscapeChar(chars[from]) \o Escaped(chars, from + 1)

(* fmt's %q of a string and %v of a []string *)
Sprintf_q(chars) == <<34>> \o Escaped(chars, 1) \o <<34>>
RECURSIVE Join(_, _)
Join(strs, from) ==
    IF from > Len(strs) THEN <<>>
    ELSE (IF from > 1 THEN <<32>> ELSE <<>>) \o strs[from] \o Join(strs, from + 1)
Sprintf_v(strs) == <<91>> \o Join(strs, 1) \o <<93>>

(* what a Prompt* call of kind k can return *)
DemoValues(k) ==
    CASE k = "base" -> BOOLEAN
      [] k = "input" -> DemoTexts
      [] k = "multi" -> {<<>>, <<Str_A, Str_B>>}
DemoZero(k) == IF k = "base" THEN FALSE ELSE <<>>
Returns(k) ==
    {r \in [value : DemoValues(k), canceled : BOOLEAN, err : Errs] :
        r.canceled => r.value = DemoZero(k)}

(* the text a goroutine assigns to resultText for what its call returned *)
ResultText(k, r) ==
    IF r.err # "nil" THEN Str_Error
    ELSE IF r.canceled
    THEN (IF k = "base" THEN Str_BaseCanceled ELSE Str_Canceled)
    ELSE CASE k = "input" -> Str_Input \o Sprintf_q(r.value)
           [] k = "multi" -> Str_Selection \o Sprintf_v(r.value)
           [] k = "base" -> IF r.value THEN Str_BaseConfirmed ELSE NoWrite

(* A Go string variable is two words, the data pointer and the length;   *)
(* each word is given by the text it was stored for.  With both words of *)
(* one text the variable holds that text, otherwise a torn string.       *)
StringOf(text) == [ptr |-> text, len |-> text]
View(str) == IF str.ptr = str.len THEN str.ptr ELSE Torn
Words == {"ptr", "len"}

IdleCall == [pc |-> "idle", kind |-> "none", text |-> <<>>, stored |-> {}]
NewDemo ==
    [loop |-> "running", resultText |-> StringOf(<<>>), shown |-> <<>>,
     racyRead |-> FALSE, g |-> [i \in DemoCalls |-> IdleCall]]

InitDemo ==
    /\ InitDialog /\ kind = "base" /\ calls = NoCalls /\ centerer = "none"
    /\ demo = NewDemo

Writing(g) == {i \in DemoCalls : g[i].pc = "writing"}

(* "go func() { ... }()" for each clicked button, in the order of the    *)
(* checks, each on the next goroutine not yet used                       *)
StartCalls(g, clicked) ==
    LET seq == SelectSeq(DemoButtons, LAMBDA b : b \in clicked)
        idle == {i \in DemoCalls : g[i].pc = "idle"}
        rank(i) == Cardinality({j \in idle : j <= i})
    IN [i \in DemoCalls |->
          IF i \in idle /\ rank(i) <= Len(seq)
          THEN [IdleCall EXCEPT !.pc = "inPrompt", !.kind = seq[rank(i)]]
          ELSE g[i]]

(* case app.FrameEvent of eventLoop: the click checks, then the layout   *)
(* that reads resultText.  The read is not ordered with the goroutines'  *)
(* assignments: it takes the two words as they are, also when only one   *)
(* word of an assignment has been stored.                                *)
eventLoop_FrameEvent ==
    /\ demo.loop = "running"
    /\ \E clicked \in SUBSET Range(DemoButtons) :
          /\ Cardinality(clicked) <= Cardinality({i \in DemoCalls : demo.g[i].pc = "idle"})
          /\ demo' = [demo EXCEPT !.g = StartCalls(demo.g, clicked),
                                  !.shown = View(demo.resultText),
                                  !.racyRead = demo.racyRead \/ Writing(demo.g) # {}]
    /\ UNCHANGED <<kind, d, w, e, pc, once, ret, closes, validateCalls, cancelSeen, lastClick,
                   clickAtOK, lastAction, calls, frameOps, centerer>>

(* case app.DestroyEvent of eventLoop: eventLoop returns, main exits *)
eventLoop_DestroyEvent ==
    /\ demo.loop = "running"
    /\ demo' = [demo EXCEPT !.loop = "returned"]
    /\ UNCHANGED <<kind, d, w, e, pc, once, ret, closes, validateCalls, cancelSeen, lastClick,
                   clickAtOK, lastAction, calls, frameOps, centerer>>

(* a goroutine: its Prompt* call returns and it starts to assign         *)
(* resultText, or assigns nothing (base dialog closed without action)    *)
goroutine_PromptReturns ==
    /\ demo.loop = "running"
    /\ \E i \in DemoCalls :
          /\ demo.g[i].pc = "inPrompt"
          /\ \E r \in Returns(demo.g[i].kind) :
                LET text == ResultText(demo.g[i].kind, r) IN
                demo' = [demo EXCEPT !.g[i].pc = IF text = NoWrite THEN "done"
                                                 ELSE "writing",
                                     !.g[i].text = text]
    /\ UNCHANGED <<kind, d, w, e, pc, once, ret, closes, validateCalls, cancelSeen, lastClick,
                   clickAtOK, lastAction, calls, frameOps, centerer>>

(* a goroutine: one of the two word stores of "resultText = ...", in     *)
(* either order; the assignment is complete with the second store.  The  *)
(* stores of two goroutines interleave freely.                           *)
goroutine_AssignResultText ==
    /\ demo.loop = "running"
    /\ \E i \in DemoCalls :
          /\ demo.g[i].pc = "writing"
          /\ \E word \in Words \ demo.g[i].stored :
                LET stored == demo.g[i].stored \cup {word} IN
                demo' = [demo EXCEPT
                           !.resultText = [demo.resultText EXCEPT ![word] = demo.g[i].text],
                           !.g[i].stored = stored,
                           !.g[i].pc = IF stored = Words THEN "done" ELSE "writing"]
    /\ UNCHANGED <<kind, d, w, e, pc, once, ret, closes, validateCalls, cancelSeen, lastClick,
                   clickAtOK, lastAction, calls, frameOps, centerer>>

NextDemo ==
    \/ eventLoop_FrameEvent
    \/ eventLoop_DestroyEvent
    \/ goroutine_PromptReturns
    \/ goroutine_AssignResultText
SpecDemo == InitDemo /\ [][NextDemo]_vars

(* C31: demo application: resultText is read and written only by the     *)
(* demo's event loop: no goroutine is ever assigning it, so no write of  *)
(* a dialog outcome interleaves with a read of the loop or with the      *)
(* write of another dialog's outcome, and the text is never torn.         *)
C31_ResultTextLoopOnly ==
    /\ Writing(demo.g) = {}
    /\ ~demo.racyRead
    /\ View(demo.resultText) # Torn /\ demo.shown # Torn

====
